---- MODULE Spec2Model ----
\* Noted-Cli: the commit helper (commitChanges / isSubmodule) run against a
\* chain of nested git repositories G > P > S, where P is a submodule of G and
\* S is a submodule of P.  A behaviour brings the repositories into some state
\* from outside, then a command calls the helper, and may call it again.  A call
\* is one action; its awaits are the steps the action composes.
EXTENDS Integers, Sequences, FiniteSets, TLC

\* ------------------------------------------------------------------ bounds
MaxRepeats == 1 \* repetitions of the last call with nothing changed in between
MaxEnv == 3     \* changes made to the repositories from outside the helper

\* ------------------------------------------------------------------ world
NoRepo == "none"
Repos == {"G", "P", "S"}
Paths == Repos \cup {NoRepo}

\* git rev-parse --show-superproject-working-tree, run in r
Super(r) == CASE r = "S" -> "P" [] r = "P" -> "G" [] OTHER -> NoRepo

\* the submodule registered at the root of r
Child(r) == CASE r = "G" -> "P" [] r = "P" -> "S" [] OTHER -> NoRepo

Files == {"A/f", "B/g"}
Sub == "sub"                 \* the gitlink entry ./basename(child)
Dirs == {".", "A"}           \* directories a command is run from
Branches == {"main", "dev"}
Detached == "HEAD"           \* what rev-parse --abbrev-ref HEAD prints when detached

\* path.relative(repoRoot, currentPath) || '.', then `${relativePath}/.`
Under(d, f) == d = "." \/ (d = "A" /\ f = "A/f")

VARIABLES
    unstaged,   \* [Repos -> SUBSET Files]: working tree differs from the index
    staged,     \* [Repos -> SUBSET Files]: index differs from HEAD
    idxptr,     \* [Repos -> Nat]: the child commit the index records (0: no child)
    commits,    \* [Repos -> Seq(commit)]: the object store, commit id = position
    head,       \* [Repos -> Branches \cup {Detached}]
    headc,      \* [Repos -> commit id]: the commit HEAD resolves to
    branches,   \* [Repos -> [Branches -> commit id or 0]]
    last,       \* the last call of commitChanges: arguments, trace and result
    quiet,      \* no working-tree change since the last call ended
    called,     \* a command has called commitChanges
    nrep, nenv,
    origin,     \* [Repos -> {"none", "plain", "tracked"}]: no remote named origin, one
                \* that no branch tracks, one that main tracks as its upstream
    pushed,     \* [Repos -> commit id]: the commit main of origin is at (0: none)
    cmd,        \* the last command or function run: arguments, trace and result
    disk        \* the file system: directories holding .git, directories holding
                \* .notedconfig, names taken in the working directory

vars == <<unstaged, staged, idxptr, commits, head, headc, branches, last, quiet,
          called, nrep, nenv, origin, pushed, cmd, disk>>

\* the repositories as one value
Snapshot ==
    [unstaged |-> unstaged, staged |-> staged, idxptr |-> idxptr,
     commits |-> commits, head |-> head, headc |-> headc, branches |-> branches,
     origin |-> origin, pushed |-> pushed]

\* ------------------------------------------------------------------ git
HeadRec(g, r) == g.commits[r][g.headc[r]]

\* the index records another child commit than HEAD does
SubStaged(g, r) == g.idxptr[r] # HeadRec(g, r).ptr

\* entries `git commit` would record
IndexChanges(g, r) == g.staged[r] \cup (IF SubStaged(g, r) THEN {Sub} ELSE {})

\* entries that differ between two commits of r
Diff(g, r, c1, c2) ==
    {f \in Files : g.commits[r][c1].tree[f] # g.commits[r][c2].tree[f]}
        \cup (IF g.commits[r][c1].ptr # g.commits[r][c2].ptr THEN {Sub} ELSE {})

\* git refuses a checkout that would overwrite a local change
CanCheckout(g, r, c) ==
    (g.unstaged[r] \cup IndexChanges(g, r)) \cap Diff(g, r, g.headc[r], c) = {}

\* the commit `git commit` writes from the index of r
NewCommit(g, r) ==
    [parent |-> g.headc[r],
     files  |-> IndexChanges(g, r),
     tree   |-> [f \in Files |-> IF f \in g.staged[r] THEN Len(g.commits[r]) + 1
                                 ELSE HeadRec(g, r).tree[f]],
     ptr    |-> g.idxptr[r]]

\* git add <pathspec> in r: fs are the files the pathspec covers, sub tells
\* whether it covers the submodule entry
GitAdd(g, r, fs, sub) ==
    [g EXCEPT !.staged[r] = @ \cup (g.unstaged[r] \cap fs),
              !.unstaged[r] = @ \ fs,
              !.idxptr[r] = IF sub /\ Child(r) # NoRepo THEN g.headc[Child(r)] ELSE @]

\* git commit -m in r, as simple-git runs it: with an empty index git exits 1
\* with its message on stdout, which simple-git does not reject
GitCommit(g, r) ==
    IF IndexChanges(g, r) = {}
    THEN g
    ELSE [g EXCEPT !.commits[r] = Append(@, NewCommit(g, r)),
                   !.headc[r] = Len(g.commits[r]) + 1,
                   !.branches[r] = IF g.head[r] = Detached THEN @
                                   ELSE [@ EXCEPT ![g.head[r]] = Len(g.commits[r]) + 1],
                   !.staged[r] = {}]

\* the new position of HEAD in r leaves local changes in place
MoveHead(g, r, h, c) ==
    [g EXCEPT !.head[r] = h,
              !.headc[r] = c,
              !.idxptr[r] = IF SubStaged(g, r) THEN @ ELSE g.commits[r][c].ptr]

\* git checkout <branch> in r, for a branch that exists and can be checked out
GitCheckout(g, r, b) == MoveHead(g, r, b, g.branches[r][b])

\* git checkout -b <branch> in r, for a branch that does not exist
GitCheckoutLocalBranch(g, r, b) ==
    [g EXCEPT !.head[r] = b, !.branches[r][b] = g.headc[r]]

\* remotes.some(remote => remote.name === 'origin')
HasOrigin(g, r) == g.origin[r] # "none"

\* git push origin main
GitPush(g, r) == [g EXCEPT !.pushed[r] = g.branches[r]["main"]]

\* ------------------------------------------------------------------ start
RootCommit(r) ==
    [parent |-> 0, files |-> Files, tree |-> [f \in Files |-> 1],
     ptr |-> IF Child(r) = NoRepo THEN 0 ELSE 1]

InitGit ==
    [unstaged |-> [r \in Repos |-> {}],
     staged   |-> [r \in Repos |-> {}],
     idxptr   |-> [r \in Repos |-> RootCommit(r).ptr],
     commits  |-> [r \in Repos |-> <<RootCommit(r)>>],
     head     |-> [r \in Repos |-> "main"],
     headc    |-> [r \in Repos |-> 1],
     branches |-> [r \in Repos |-> [b \in Branches |-> IF b = "main" THEN 1 ELSE 0]],
     origin   |-> [r \in Repos |-> "none"],
     pushed   |-> [r \in Repos |-> 0]]

NoArgs == [impl |-> "none", path |-> NoRepo, dir |-> ".", branch |-> "main",
           failAt |-> "none"]

\* the directories: G, its submodule P, P's submodule S, a directory of S, and
\* a directory outside every repository
Tree == {"/", "/x", "/g", "/g/p", "/g/p/s", "/g/p/s/A"}

\* path.dirname
Dirname(p) ==
    CASE p = "/g/p/s/A" -> "/g/p/s"
      [] p = "/g/p/s"   -> "/g/p"
      [] p = "/g/p"     -> "/g"
      [] OTHER          -> "/"

\* the file system the repositories G, P and S live in; G is the main Noted
\* repository
RealFs == [git |-> {"/g", "/g/p", "/g/p/s"}, config |-> {"/g"}, names |-> {}]

\* no command has run
NoCmd == [kind |-> "none", args |-> <<>>, log |-> <<>>, out |-> <<>>, res |-> "none"]

NoBefore == [out |-> <<>>, made |-> [r \in Repos |-> 0]]

Init ==
    /\ unstaged = InitGit.unstaged
    /\ staged = InitGit.staged
    /\ idxptr = InitGit.idxptr
    /\ commits = InitGit.commits
    /\ head = InitGit.head
    /\ headc = InitGit.headc
    /\ branches = InitGit.branches
    /\ last = [args |-> NoArgs, pre |-> InitGit, log |-> <<>>, out |-> <<>>,
               ret |-> "none", again |-> FALSE, before |-> NoBefore]
    /\ quiet = FALSE
    /\ called = FALSE
    /\ nrep = 0
    /\ nenv = 0
    /\ origin = InitGit.origin
    /\ pushed = InitGit.pushed
    /\ cmd = NoCmd
    /\ disk = RealFs

\* the repositories become g
Install(g) ==
    /\ unstaged' = g.unstaged
    /\ staged' = g.staged
    /\ idxptr' = g.idxptr
    /\ commits' = g.commits
    /\ head' = g.head
    /\ headc' = g.headc
    /\ branches' = g.branches
    /\ origin' = g.origin
    /\ pushed' = g.pushed

\* ------------------------------------------------------------------ user
\* a command or the user changes a file of the working tree
Edit(r, f) ==
    /\ ~called /\ nenv < MaxEnv
    /\ f \notin unstaged[r]
    /\ unstaged' = [unstaged EXCEPT ![r] = @ \cup {f}]
    /\ nenv' = nenv + 1
    /\ quiet' = FALSE
    /\ UNCHANGED <<staged, idxptr, commits, head, headc, branches, last, called, nrep,
                   origin, pushed, cmd, disk>>

\* the user stages a changed file by hand
UserStage(r, f) ==
    /\ ~called /\ nenv < MaxEnv
    /\ f \in unstaged[r]
    /\ Install(GitAdd(Snapshot, r, {f}, FALSE))
    /\ nenv' = nenv + 1
    /\ quiet' = FALSE
    /\ UNCHANGED <<last, called, nrep, cmd, disk>>

\* a repository is left at a commit without a branch (a submodule checkout)
Detach(r, c) ==
    /\ ~called /\ nenv < MaxEnv
    /\ head[r] # Detached
    /\ c \in 1..Len(commits[r])
    /\ CanCheckout(Snapshot, r, c)
    /\ Install(MoveHead(Snapshot, r, Detached, c))
    /\ nenv' = nenv + 1
    /\ quiet' = FALSE
    /\ UNCHANGED <<last, called, nrep, cmd, disk>>

\* a commit that changes f arrives on the checked-out branch (a pull)
Pull(r, f) ==
    /\ ~called /\ nenv < MaxEnv
    /\ head[r] # Detached
    /\ f \notin unstaged[r] \cup staged[r]
    /\ Install(LET g == Snapshot
               n == Len(commits[r]) + 1
           IN  [g EXCEPT !.commits[r] =
                             Append(@, [parent |-> headc[r], files |-> {f},
                                        tree |-> [HeadRec(g, r).tree EXCEPT ![f] = n],
                                        ptr |-> HeadRec(g, r).ptr]),
                         !.headc[r] = n,
                         !.branches[r][head[r]] = n])
    /\ nenv' = nenv + 1
    /\ quiet' = FALSE
    /\ UNCHANGED <<last, called, nrep, cmd, disk>>

\* ------------------------------------------------------------------ steps
\* A running call is a record s: the repositories s.g, the position s.pc, the
\* locals, the git operations issued (s.log) and the console lines (s.out).
\* a.failAt names the one operation that fails for an outside reason, if any.
\* s.log holds one entry per git operation: the statement, the operation, the
\* repository, whether it resolved, the entries it moved (into the index for an
\* add, out of it for a commit) and the changes the index holds afterwards
Op(s, o, r, ok, es, ix) ==
    [at |-> s.pc, op |-> o, repo |-> r, ok |-> ok, entries |-> es, index |-> ix]

\* a git operation rejects: control passes to the catch block
Throw(s, o, r) ==
    [s EXCEPT !.pc = "catch", !.log = Append(@, Op(s, o, r, FALSE, {}, {}))]

\* a step that succeeded: the repositories, the next position and a log entry
Went(s, g, pc, op) == [s EXCEPT !.g = g, !.pc = pc, !.log = Append(@, op)]

\* console.log / console.error
Say(s, line) == [s EXCEPT !.out = Append(@, line)]

\* entries a `git add` of the files fs (and of the submodule entry, if sub)
\* moves into the index of r
Adds(g, r, fs, sub) ==
    (g.unstaged[r] \cap fs)
        \cup (IF sub /\ Child(r) # NoRepo /\ g.idxptr[r] # g.headc[Child(r)]
              THEN {Sub} ELSE {})

\* ---- commitChanges(currentPath, commitMessage, branchName = 'main')
\* repoRoot = await git.revparse(['--show-toplevel'])
RevparseToplevel(s, a) ==
    IF a.failAt = "toplevel" \/ a.path = NoRepo
    THEN Throw(s, "toplevel", a.path)
    ELSE [Went(s, s.g, "abbrev", Op(s, "toplevel", a.path, TRUE, {}, {}))
            EXCEPT !.repoRoot = a.path]

\* the branch is checked out whatever HEAD is on
RevparseHead_AlwaysCheckout(s, a) ==
    IF a.failAt = "abbrev"
    THEN Throw(s, "abbrev", s.repoRoot)
    ELSE Went(s, s.g, "checkout", Op(s, "abbrev", s.repoRoot, TRUE, {}, {}))

\* currentBranch = await repoGit.revparse(['--abbrev-ref', 'HEAD'])
\* if (currentBranch.trim() === 'HEAD')
RevparseHead(s, a) ==
    IF a.failAt = "abbrev"
    THEN Throw(s, "abbrev", s.repoRoot)
    ELSE Went(s, s.g, IF s.g.head[s.repoRoot] = Detached THEN "checkout" ELSE "add",
              Op(s, "abbrev", s.repoRoot, TRUE, {}, {}))

\* the inner catch swallows the failed checkout and creates no branch
Checkout_Swallow(s, a) ==
    LET r == s.repoRoot
        b == a.branch
    IN  IF /\ a.failAt # "checkout"
           /\ s.g.branches[r][b] # 0
           /\ CanCheckout(s.g, r, s.g.branches[r][b])
        THEN Say(Went(s, GitCheckout(s.g, r, b), "add", Op(s, "checkout", r, TRUE, {}, {})),
                 "checkedOut")
        ELSE Went(s, s.g, "add", Op(s, "checkout", r, FALSE, {}, {}))

\* try { await repoGit.checkout(branchName) } catch (error) { ... }
Checkout(s, a) ==
    LET r == s.repoRoot
        b == a.branch
    IN  IF /\ a.failAt # "checkout"
           /\ s.g.branches[r][b] # 0
           /\ CanCheckout(s.g, r, s.g.branches[r][b])
        THEN Say(Went(s, GitCheckout(s.g, r, b), "add", Op(s, "checkout", r, TRUE, {}, {})),
                 "checkedOut")
        ELSE Went(s, s.g, "checkoutLocal", Op(s, "checkout", r, FALSE, {}, {}))

\* await repoGit.checkoutLocalBranch(branchName), inside the inner catch
CheckoutLocalBranch(s, a) ==
    LET r == s.repoRoot
        b == a.branch
    IN  IF a.failAt # "checkoutLocal" /\ s.g.branches[r][b] = 0
        THEN Say(Went(s, GitCheckoutLocalBranch(s.g, r, b), "add",
                      Op(s, "checkoutLocal", r, TRUE, {}, {})),
                 "createdBranch")
        ELSE Throw(s, "checkoutLocal", r)

\* await repoGit.add(`${relativePath}/.`)
Add(s, a) ==
    LET r == s.repoRoot
        fs == {f \in Files : Under(a.dir, f)}
    IN  IF a.failAt = "add"
        THEN Throw(s, "add", r)
        ELSE Say(Went(s, GitAdd(s.g, r, fs, a.dir = "."), "commit",
                      Op(s, "add", r, TRUE, Adds(s.g, r, fs, a.dir = "."),
                         IndexChanges(GitAdd(s.g, r, fs, a.dir = "."), r))),
                 "staged")

\* the commit is reported but not run
Commit_Skipped(s, a) ==
    LET r == s.repoRoot
    IN  IF a.failAt = "commit"
        THEN Throw(s, "commit", r)
        ELSE Say(Went(s, s.g, "isSubmodule",
                      Op(s, "commit", r, TRUE, IndexChanges(s.g, r), {})),
                 "committed")

\* the commit is pushed when the repository has an origin
Commit_AndPush(s, a) ==
    LET r == s.repoRoot
        g == GitCommit(s.g, r)
    IN  IF a.failAt = "commit"
        THEN Throw(s, "commit", r)
        ELSE Say(Went(s, IF HasOrigin(g, r) THEN GitPush(g, r) ELSE g, "isSubmodule",
                      Op(s, "commit", r, TRUE, IndexChanges(s.g, r), {})),
                 "committed")

\* await repoGit.commit(commitMessage)
Commit(s, a) ==
    LET r == s.repoRoot
    IN  IF a.failAt = "commit"
        THEN Throw(s, "commit", r)
        ELSE Say(Went(s, GitCommit(s.g, r), "isSubmodule",
                      Op(s, "commit", r, TRUE, IndexChanges(s.g, r), {})),
                 "committed")

\* isSubmodule(repoPath): the trimmed output of the superproject query; null
\* when the output is empty and when the query fails
isSubmodule(repoPath, fails) == IF fails THEN NoRepo ELSE Super(repoPath)

\* parentRepoPath = await isSubmodule(repoRoot); if (parentRepoPath) ... else ...
DetectParent(s, a) ==
    LET fails == a.failAt = "isSubmodule"
        p == isSubmodule(s.repoRoot, fails)
        t == Went(s, s.g, IF p # NoRepo THEN "parentAdd" ELSE "done",
                  Op(s, "superproject", s.repoRoot, ~fails, {}, {}))
    IN  IF p # NoRepo
        THEN Say([t EXCEPT !.parentRepoPath = p], "detected")
        ELSE Say(t, "noParent")

\* the add in the parent names a path that is not the submodule entry
ParentAdd_NotTheEntry(s, a) ==
    LET p == s.parentRepoPath
    IN  IF a.failAt = "parentAdd"
        THEN Throw(s, "add", p)
        ELSE Say(Went(s, GitAdd(s.g, p, {}, FALSE), "parentCommit",
                      Op(s, "add", p, TRUE, Adds(s.g, p, {}, FALSE),
                         IndexChanges(GitAdd(s.g, p, {}, FALSE), p))),
                 "stagedSub")

\* await parentGit.add(`./${submoduleName}`), submoduleName = path.basename(repoRoot)
ParentAdd(s, a) ==
    LET p == s.parentRepoPath
    IN  IF a.failAt = "parentAdd"
        THEN Throw(s, "add", p)
        ELSE Say(Went(s, GitAdd(s.g, p, {}, TRUE), "parentCommit",
                      Op(s, "add", p, TRUE, Adds(s.g, p, {}, TRUE),
                         IndexChanges(GitAdd(s.g, p, {}, TRUE), p))),
                 "stagedSub")

\* after the parent's commit the helper goes on with the parent as repoRoot
ParentCommit_Climb(s, a) ==
    LET p == s.parentRepoPath
    IN  IF a.failAt = "parentCommit"
        THEN Throw(s, "commit", p)
        ELSE [Say(Went(s, GitCommit(s.g, p), "isSubmodule",
                       Op(s, "commit", p, TRUE, IndexChanges(s.g, p), {})),
                  "committedSub")
                EXCEPT !.repoRoot = p]

\* await parentGit.commit(`Update submodule: "${submoduleName}" - ${commitMessage}`)
ParentCommit(s, a) ==
    LET p == s.parentRepoPath
    IN  IF a.failAt = "parentCommit"
        THEN Throw(s, "commit", p)
        ELSE Say(Went(s, GitCommit(s.g, p), "done",
                      Op(s, "commit", p, TRUE, IndexChanges(s.g, p), {})),
                 "committedSub")

\* the catch block takes back what the call staged in the target repository
Catch_Unstage(s, a) ==
    Say([s EXCEPT !.pc = "done",
                  !.g = IF a.path = NoRepo THEN @
                        ELSE [@ EXCEPT !.unstaged[a.path] = @ \cup s.g.staged[a.path],
                                       !.staged[a.path] = {}]],
        "error")

\* catch (error) { console.error(...) }
Catch(s, a) == Say([s EXCEPT !.pc = "done"], "error")

\* ---- the helper of functions/commitHelper.js: commitChanges(repoPath, commitMessage)
\* await git.add('.'), git = simpleGit(repoPath)
HelperAdd(s, a) ==
    LET r == a.path
        fs == {f \in Files : Under(a.dir, f)}
    IN  IF a.failAt = "add" \/ r = NoRepo
        THEN Throw(s, "add", r)
        ELSE Say(Went(s, GitAdd(s.g, r, fs, a.dir = "."), "commit",
                      Op(s, "add", r, TRUE, Adds(s.g, r, fs, a.dir = "."),
                         IndexChanges(GitAdd(s.g, r, fs, a.dir = "."), r))),
                 "staged")

\* await git.commit(commitMessage)
HelperCommit(s, a) ==
    LET r == a.path
    IN  IF a.failAt = "commit"
        THEN Throw(s, "commit", r)
        ELSE Say(Went(s, GitCommit(s.g, r), "isSubmodule",
                      Op(s, "commit", r, TRUE, IndexChanges(s.g, r), {})),
                 "committed")

\* parentRepoPath = await isSubmodule(repoPath)
HelperDetectParent(s, a) ==
    LET fails == a.failAt = "isSubmodule"
        p == isSubmodule(a.path, fails)
        t == Went(s, s.g, IF p # NoRepo THEN "parentAdd" ELSE "done",
                  Op(s, "superproject", a.path, ~fails, {}, {}))
    IN  IF p # NoRepo
        THEN Say([t EXCEPT !.parentRepoPath = p], "detected")
        ELSE Say(t, "noParent")

\* await parentGit.add(parentRepoPath): the whole working tree of the parent
HelperParentAdd(s, a) ==
    LET p == s.parentRepoPath
    IN  IF a.failAt = "parentAdd"
        THEN Throw(s, "add", p)
        ELSE Say(Went(s, GitAdd(s.g, p, Files, TRUE), "parentCommit",
                      Op(s, "add", p, TRUE, Adds(s.g, p, Files, TRUE),
                         IndexChanges(GitAdd(s.g, p, Files, TRUE), p))),
                 "stagedSub")

\* await parentGit.commit(`Update submodule: ...`)
HelperParentCommit(s, a) ==
    LET p == s.parentRepoPath
    IN  IF a.failAt = "parentCommit"
        THEN Throw(s, "commit", p)
        ELSE Say(Went(s, GitCommit(s.g, p), "done",
                      Op(s, "commit", p, TRUE, IndexChanges(s.g, p), {})),
                 "committedSub")

\* ---- a whole call
Start(g, a) ==
    [g |-> g, pc |-> IF a.impl = "new" THEN "toplevel" ELSE "add",
     repoRoot |-> NoRepo, parentRepoPath |-> NoRepo, log |-> <<>>, out |-> <<>>]

\* the statement at s.pc
Step(s, a) ==
    IF a.impl = "new"
    THEN CASE s.pc = "toplevel"      -> RevparseToplevel(s, a)
           [] s.pc = "abbrev"        -> RevparseHead(s, a)
           [] s.pc = "checkout"      -> Checkout(s, a)
           [] s.pc = "checkoutLocal" -> CheckoutLocalBranch(s, a)
           [] s.pc = "add"           -> Add(s, a)
           [] s.pc = "commit"        -> Commit(s, a)
           [] s.pc = "isSubmodule"   -> DetectParent(s, a)
           [] s.pc = "parentAdd"     -> ParentAdd(s, a)
           [] s.pc = "parentCommit"  -> ParentCommit(s, a)
           [] OTHER                  -> Catch(s, a)
    ELSE CASE s.pc = "add"           -> HelperAdd(s, a)
           [] s.pc = "commit"        -> HelperCommit(s, a)
           [] s.pc = "isSubmodule"   -> HelperDetectParent(s, a)
           [] s.pc = "parentAdd"     -> HelperParentAdd(s, a)
           [] s.pc = "parentCommit"  -> HelperParentCommit(s, a)
           [] OTHER                  -> Catch(s, a)

RECURSIVE Run(_, _)
Run(s, a) == IF s.pc = "done" THEN s ELSE Run(Step(s, a), a)

\* what the async function resolves to: it has no return statement
Returned(s) == "undefined"

\* commitChanges from g with the arguments a, run to its end
commitChanges(g, a) == Run(Start(g, a), a)

\* the statements a call went through
Visited(s) == {s.log[i].at : i \in 1..Len(s.log)}

\* the helper runs from the current repositories with the arguments a0 and, if
\* faulty, at most one operation failing for an outside reason
Invoke(a0, again, faulty) ==
    \E s0 \in {commitChanges(Snapshot, a0)} :
    \E fa \in {"none"} \cup (IF faulty THEN Visited(s0) ELSE {}) :
    \E s \in {IF fa = "none" THEN s0
              ELSE commitChanges(Snapshot, [a0 EXCEPT !.failAt = fa])} :
        /\ fa # "none" => s # s0
        /\ Install(s.g)
        /\ last' = [args |-> [a0 EXCEPT !.failAt = fa], pre |-> Snapshot,
                    log |-> s.log, out |-> s.out, ret |-> Returned(s),
                    again |-> again,
                    before |-> IF again
                               THEN [out |-> last.out,
                                     made |-> [r \in Repos |->
                                         Len(commits[r]) - Len(last.pre.commits[r])]]
                               ELSE NoBefore]
        /\ quiet' = TRUE
        /\ UNCHANGED <<nenv, cmd, disk>>

\* a command calls commitChanges of part_009 (with the branch recovery)
Call ==
    /\ ~called
    /\ \E p \in Paths, d \in Dirs, b \in Branches :
        /\ p = NoRepo => d = "."
        /\ Invoke([impl |-> "new", path |-> p, dir |-> d, branch |-> b,
                   failAt |-> "none"], FALSE, TRUE)
    /\ called' = TRUE
    /\ UNCHANGED nrep

\* a command calls commitChanges of functions/commitHelper.js
HelperCall ==
    /\ ~called
    /\ \E p \in Paths, d \in Dirs :
        /\ p = NoRepo => d = "."
        /\ Invoke([impl |-> "old", path |-> p, dir |-> d, branch |-> "main",
                   failAt |-> "none"], FALSE, TRUE)
    /\ called' = TRUE
    /\ UNCHANGED nrep

\* the same call once more, with nothing changed since the last one ended
Again ==
    /\ quiet
    /\ nrep < MaxRepeats
    /\ Invoke([last.args EXCEPT !.failAt = "none"], TRUE, FALSE)
    /\ nrep' = nrep + 1
    /\ UNCHANGED called

Next ==
    \/ \E r \in Repos, f \in Files : Edit(r, f)
    \/ \E r \in Repos, f \in Files : UserStage(r, f)
    \/ \E r \in Repos, c \in 1..(MaxEnv + 1) : Detach(r, c)
    \/ \E r \in Repos, f \in Files : Pull(r, f)
    \/ Call
    \/ HelperCall
    \/ Again

Spec == Init /\ [][Next]_vars

\* ------------------------------------------------------------------ functions
MaxSuffix == 2  \* suffixes of the names that exist before a name is chosen

Null == "null"
Undefined == "undefined"

\* if (value), if (!value)
Truthy(v) == v \notin {Null, Undefined, ""}

\* the walk gives the parent directory without a look at it
findWorkspaceRoot_Parent(d, workspaceRoot) ==
    IF workspaceRoot \in d.git THEN workspaceRoot ELSE Dirname(workspaceRoot)

\* findWorkspaceRoot of the upload command: the walk over path.dirname
RECURSIVE findWorkspaceRoot(_, _)
findWorkspaceRoot(d, workspaceRoot) ==
    IF workspaceRoot \in d.git THEN workspaceRoot
    ELSE IF Dirname(workspaceRoot) = workspaceRoot THEN Null
    ELSE findWorkspaceRoot(d, Dirname(workspaceRoot))

\* findWorkspaceRoot of the update command: git rev-parse --show-toplevel, null
\* when it rejects
toplevel(d, currentPath, fails) ==
    IF fails THEN Null ELSE findWorkspaceRoot(d, currentPath)

\* getNotedRepoRoot of nav.js: while (dir !== '/')
RECURSIVE getNotedRepoRoot(_, _)
getNotedRepoRoot(d, dir) ==
    IF dir = "/" THEN Null
    ELSE IF dir \in d.config THEN dir
    ELSE getNotedRepoRoot(d, Dirname(dir))

\* getWorkspaceRoot of nav.js: while (dir !== '/')
RECURSIVE getWorkspaceRoot(_, _)
getWorkspaceRoot(d, dir) ==
    IF dir = "/" THEN Null
    ELSE IF dir \in d.git THEN dir
    ELSE getWorkspaceRoot(d, Dirname(dir))

\* names are the base and the counters appended to it: `${base}-${counter}`
Bases == {<<"n">>, <<"n", 1>>}
Names == Bases \cup {Append(b, k) : b \in Bases, k \in 1..MaxSuffix}

\* the suffixed name is taken without another look at the directory
finalName_Once(existing, base, final, counter) ==
    IF final \in existing THEN Append(base, counter) ELSE final

\* while (fs.existsSync(path)) { final = `${base}-${counter}`; counter++ }
RECURSIVE finalName(_, _, _, _)
finalName(existing, base, final, counter) ==
    IF final \in existing
    THEN finalName(existing, base, Append(base, counter), counter + 1)
    ELSE final

\* what git rev-parse --show-superproject-working-tree gives: it rejects, or
\* resolves with its output
Queries ==
    {[ok |-> FALSE, out |-> ""]}
        \cup {[ok |-> TRUE, out |-> o] : o \in {"", " \n", "/g\n", " /g \n"}}

\* String.prototype.trim
Trim(str) == CASE str \in {"/g\n", " /g \n"} -> "/g" [] OTHER -> ""

\* the output is returned as git printed it
isSubmoduleOf_Untrimmed(variant, q) ==
    IF ~q.ok THEN Null
    ELSE IF q.out # "" /\ Trim(q.out) # "" THEN q.out
    ELSE IF variant = "upload" THEN Undefined
    ELSE Null

\* isSubmodule of part_009, commitHelper.js and validations.js ("helper") and of
\* the upload command ("upload"), on the outcome q of its one query
isSubmoduleOf(variant, q) ==
    IF ~q.ok THEN Null
    ELSE IF q.out # "" /\ Trim(q.out) # "" THEN Trim(q.out)
    ELSE IF variant = "upload" THEN Undefined
    ELSE Null

\* a function or command ran; the repositories are as they were
Ran(c) ==
    /\ cmd.kind = "none"
    /\ cmd' = c
    /\ UNCHANGED <<unstaged, staged, idxptr, commits, head, headc, branches, last,
                   quiet, called, nrep, nenv, origin, pushed>>

\* a root search from a directory
Walk(kind, start) ==
    /\ Ran([kind |-> kind, args |-> <<start>>, log |-> <<>>, out |-> <<>>,
            res |-> CASE kind = "findWorkspaceRoot" -> findWorkspaceRoot(disk, start)
                      [] kind = "getNotedRepoRoot"  -> getNotedRepoRoot(disk, start)
                      [] OTHER                      -> getWorkspaceRoot(disk, start)])
    /\ UNCHANGED disk

\* git's own root search, as the update command runs it
Toplevel(start, fails) ==
    /\ Ran([kind |-> "toplevel", args |-> <<start, fails>>, log |-> <<>>, out |-> <<>>,
            res |-> toplevel(disk, start, fails)])
    /\ UNCHANGED disk

\* note add, folder add, workspace add: the name is chosen and the entry made
ChooseName(base) ==
    /\ Ran([kind |-> "name", args |-> <<base, disk.names>>, log |-> <<>>, out |-> <<>>,
            res |-> finalName(disk.names, base, base, 1)])
    /\ disk' = [disk EXCEPT !.names = @ \cup {finalName(disk.names, base, base, 1)}]

\* isSubmodule and the test its caller makes on the result
QuerySuperproject(variant, q) ==
    /\ Ran([kind |-> "isSubmodule", args |-> <<variant, q>>, log |-> <<"query">>,
            out |-> <<IF Truthy(isSubmoduleOf(variant, q)) THEN "parent" ELSE "noParent">>,
            res |-> isSubmoduleOf(variant, q)])
    /\ UNCHANGED disk

\* file systems: any placement of .git and .notedconfig, or the repositories'
\* own with any names taken
Disks ==
    {[git |-> m, config |-> c, names |-> {}] :
        m \in SUBSET Tree, c \in SUBSET {"/", "/g", "/g/p"}}
        \cup {[RealFs EXCEPT !.names = n] : n \in SUBSET Names}

InitFs ==
    /\ unstaged = InitGit.unstaged
    /\ staged = InitGit.staged
    /\ idxptr = InitGit.idxptr
    /\ commits = InitGit.commits
    /\ head = InitGit.head
    /\ headc = InitGit.headc
    /\ branches = InitGit.branches
    /\ last = [args |-> NoArgs, pre |-> InitGit, log |-> <<>>, out |-> <<>>,
               ret |-> "none", again |-> FALSE, before |-> NoBefore]
    /\ quiet = FALSE
    /\ called = FALSE
    /\ nrep = 0
    /\ nenv = 0
    /\ origin = InitGit.origin
    /\ pushed = InitGit.pushed
    /\ cmd = NoCmd
    /\ disk \in Disks

NextFs ==
    \/ \E k \in {"findWorkspaceRoot", "getNotedRepoRoot", "getWorkspaceRoot"},
          p \in Tree : Walk(k, p)
    \/ \E p \in Tree, fails \in BOOLEAN : Toplevel(p, fails)
    \/ \E b \in Bases : ChooseName(b)
    \/ \E v \in {"helper", "upload"}, q \in Queries : QuerySuperproject(v, q)

SpecFs == InitFs /\ [][NextFs]_vars

\* ------------------------------------------------------------------ commands
\* every directory passes for the main repository
isMainNotedRepo_Always(d, dir) == TRUE

\* fs.existsSync(path.join(dir, '.notedconfig'))
isMainNotedRepo(d, dir) == dir \in d.config

\* the repository a directory lies in and the directory's path inside it
RepoAt(dir) ==
    CASE dir = "/g" -> "G" [] dir = "/g/p" -> "P" [] dir \in {"/g/p/s", "/g/p/s/A"} -> "S"
      [] OTHER -> NoRepo

Relative(dir) == IF dir = "/g/p/s/A" THEN "A" ELSE "."

\* a commit and the commits it descends from
RECURSIVE History(_, _, _)
History(g, r, c) == IF c = 0 THEN {} ELSE {c} \cup History(g, r, g.commits[r][c].parent)

\* status.ahead: commits of HEAD that the upstream does not have
Ahead(g, r) ==
    IF g.origin[r] = "tracked" /\ g.pushed[r] # 0
    THEN Cardinality(History(g, r, g.headc[r]) \ History(g, r, g.pushed[r]))
    ELSE 0

\* !status.isClean(): a file changed or staged, or the submodule at another
\* commit than the index records, or with changes of its own
Dirty(g, r) ==
    \/ g.unstaged[r] \cup IndexChanges(g, r) # {}
    \/ /\ Child(r) # NoRepo
       /\ \/ g.idxptr[r] # g.headc[Child(r)]
          \/ g.unstaged[Child(r)] \cup g.staged[Child(r)] # {}

\* A running command is a record c: the repositories c.g, whether it is still
\* running (c.pc), the operations it issued (c.log) and its console lines (c.out).
\* fail names the kind of operation that rejects for an outside reason, if any.
Ev(op, r, info) == [op |-> op, repo |-> r, info |-> info]

Begin(g) == [g |-> g, pc |-> "run", log |-> <<>>, out |-> <<>>]

Did(c, g, e, line) ==
    [c EXCEPT !.g = g, !.log = Append(@, e),
              !.out = IF line = "" THEN @ ELSE Append(@, <<line, e.repo>>)]

\* console output without an operation
Tell(c, line, r) == [c EXCEPT !.out = Append(@, <<line, r>>)]

\* return
Return(c) == [c EXCEPT !.pc = "returned"]

\* an operation rejects: the enclosing catch block prints the error
Rejects(c, op, r) ==
    [c EXCEPT !.pc = "caught", !.log = Append(@, Ev(op, r, "rejected")),
              !.out = Append(@, <<"error", r>>)]

\* await commitChanges(root, message) from a command, as part_009 has it; a
\* failing add or commit is one inside the helper
Propagate(c, r, fail) ==
    LET s == commitChanges(c.g, [impl |-> "new", path |-> r, dir |-> ".",
                                 branch |-> "main",
                                 failAt |-> IF fail \in {"add", "commit"} THEN fail
                                            ELSE "none"])
    IN  Did(c, s.g, Ev("commitChanges", r, [ops |-> s.log, was |-> c.g.pushed,
                                            pushed |-> s.g.pushed]), "")

\* await git.push('origin', 'main'); a failing push is the first of the run
Push(c, r, fail) ==
    IF fail = "push" /\ \A i \in 1..Len(c.log) : c.log[i].op # "push"
    THEN Rejects(c, "push", r)
    ELSE Did(c, GitPush(c.g, r), Ev("push", r, "ok"), "pushed")

\* ---- update (part_005)
\* one workspace: status, getRemotes, commitChanges if there are changes, push
UpdateWorkspace(c, r, fail) ==
    IF c.pc # "run" THEN c
    ELSE IF fail = "status" THEN Rejects(c, "status", r)
    ELSE LET hasChanges == Dirty(c.g, r)
             hasUnpushedCommits == Ahead(c.g, r) > 0
             hasOrigin == HasOrigin(c.g, r)
             c1 == Did(c, c.g, Ev("status", r, [hasChanges |-> hasChanges,
                                               ahead |-> Ahead(c.g, r)]), "")
             c2 == Did(c1, c1.g, Ev("remotes", r, hasOrigin), "")
             c3 == IF hasChanges THEN Propagate(c2, r, fail) ELSE Tell(c2, "noChanges", r)
         IN  IF fail = "remotes" THEN Rejects(c1, "remotes", r)
             ELSE IF hasOrigin
             THEN IF hasUnpushedCommits \/ hasChanges
                  THEN Push(c3, r, fail)
                  ELSE Tell(c3, "noNewCommits", r)
             ELSE Tell(c3, "noOrigin", r)

\* the push does not ask whether there is an origin
UpdateParent_PushesAnyway(c, r, fail) ==
    IF c.pc # "run" THEN c
    ELSE IF fail = "status" THEN Rejects(c, "status", r)
    ELSE LET parentHasChanges == Dirty(c.g, r)
             parentHasUnpushedCommits == Ahead(c.g, r) > 0
             c1 == Did(c, c.g, Ev("status", r, [hasChanges |-> parentHasChanges,
                                               ahead |-> Ahead(c.g, r)]), "")
             c2 == IF parentHasChanges THEN Propagate(c1, r, fail) ELSE Tell(c1, "noChanges", r)
             c3 == Did(c2, c2.g, Ev("remotes", r, HasOrigin(c2.g, r)), "")
         IN  IF fail = "remotes" THEN Rejects(c2, "remotes", r)
             ELSE IF parentHasUnpushedCommits \/ parentHasChanges
                  THEN Push(c3, r, fail)
                  ELSE Tell(c3, "noNewCommits", r)

\* the parent repository: status, commitChanges if there are changes,
\* getRemotes, push
UpdateParent(c, r, fail) ==
    IF c.pc # "run" THEN c
    ELSE IF fail = "status" THEN Rejects(c, "status", r)
    ELSE LET parentHasChanges == Dirty(c.g, r)
             parentHasUnpushedCommits == Ahead(c.g, r) > 0
             c1 == Did(c, c.g, Ev("status", r, [hasChanges |-> parentHasChanges,
                                               ahead |-> Ahead(c.g, r)]), "")
             c2 == IF parentHasChanges THEN Propagate(c1, r, fail) ELSE Tell(c1, "noChanges", r)
             parentHasOrigin == HasOrigin(c2.g, r)
             c3 == Did(c2, c2.g, Ev("remotes", r, parentHasOrigin), "")
         IN  IF fail = "remotes" THEN Rejects(c2, "remotes", r)
             ELSE IF parentHasOrigin
             THEN IF parentHasUnpushedCommits \/ parentHasChanges
                  THEN Push(c3, r, fail)
                  ELSE Tell(c3, "noNewCommits", r)
             ELSE Tell(c3, "noOrigin", r)

\* the action of `noted update [--all]` run in cwd
updateCommand(g, d, cwd, all, fail) ==
    LET workspaceRoot == toplevel(d, cwd, fail = "toplevel")
        root == RepoAt(workspaceRoot)
    IN  IF ~Truthy(workspaceRoot)
        THEN Return(Tell(Begin(g), "errorNoRoot", NoRepo))
        ELSE IF all
        THEN IF ~isMainNotedRepo(d, workspaceRoot)
             THEN Return(Tell(Begin(g), "errorNotMain", root))
             ELSE IF Child(root) = NoRepo
             THEN Return(Tell(Begin(g), "noSubmodules", root))
             ELSE UpdateParent(UpdateWorkspace(Begin(g), Child(root), fail), root, fail)
        ELSE IF isSubmodule(root, fail = "isSubmodule") = NoRepo
             THEN Return(Tell(Begin(g), "errorNotWorkspace", root))
             ELSE UpdateParent(UpdateWorkspace(Begin(g), root, fail),
                               isSubmodule(root, FALSE), fail)

\* ---- upload (part_006)
\* handleSubmoduleChanges: with an origin, add, status, commit and push; its own
\* catch block prints an error and the command goes on
handleSubmoduleChanges(c, r, fail) ==
    LET hasOrigin == HasOrigin(c.g, r)
        c1 == Did(c, c.g, Ev("remotes", r, hasOrigin), "")
        c2 == Did(c1, GitAdd(c1.g, r, Files, TRUE),
                  Ev("add", r, Adds(c1.g, r, Files, TRUE)), "")
        c3 == Did(c2, c2.g, Ev("status", r, [hasChanges |-> Dirty(c2.g, r),
                                            ahead |-> Ahead(c2.g, r)]), "")
        c4 == Did(c3, GitCommit(c3.g, r), Ev("commit", r, IndexChanges(c3.g, r)),
                  "committed")
        c5 == IF fail = "remotes" THEN Rejects(c, "remotes", r)
              ELSE IF ~hasOrigin THEN Tell(c1, "noOrigin", r)
              ELSE IF fail = "add" THEN Rejects(c1, "add", r)
              ELSE IF fail = "status" THEN Rejects(c2, "status", r)
              ELSE IF fail = "commit" THEN Rejects(c3, "commit", r)
              ELSE Push(c4, r, fail)
    IN  [c5 EXCEPT !.pc = "run"]

\* updateParentRepository: add the submodule, commit, and push with an origin
updateParentRepository(c, p, fail) ==
    LET c1 == Did(c, GitAdd(c.g, p, {}, TRUE), Ev("add", p, Adds(c.g, p, {}, TRUE)),
                  "stagedSub")
        c2 == Did(c1, GitCommit(c1.g, p), Ev("commit", p, IndexChanges(c1.g, p)),
                  "committed")
        hasOrigin == HasOrigin(c2.g, p)
        c3 == Did(c2, c2.g, Ev("remotes", p, hasOrigin), "")
        c4 == IF fail = "add" THEN Rejects(c, "add", p)
              ELSE IF fail = "commit" THEN Rejects(c1, "commit", p)
              ELSE IF fail = "remotes" THEN Rejects(c2, "remotes", p)
              ELSE IF hasOrigin THEN Push(c3, p, fail)
              ELSE Tell(c3, "noOrigin", p)
    IN  [c4 EXCEPT !.pc = "run"]

\* the action of `noted upload [--all]` run in cwd
uploadCommand(g, d, cwd, all, fail) ==
    LET workspaceRoot == findWorkspaceRoot(d, cwd)
        root == RepoAt(workspaceRoot)
    IN  IF ~Truthy(workspaceRoot)
        THEN Return(Tell(Begin(g), "errorNoRoot", NoRepo))
        ELSE IF all
        THEN IF ~isMainNotedRepo(d, workspaceRoot)
             THEN Return(Tell(Begin(g), "errorNotMain", root))
             ELSE IF Child(root) = NoRepo
             THEN Return(Tell(Begin(g), "noSubmodules", root))
             ELSE updateParentRepository(
                      handleSubmoduleChanges(Begin(g), Child(root), fail), root, fail)
        ELSE IF isSubmodule(root, fail = "isSubmodule") = NoRepo
             THEN Return(Tell(Begin(g), "errorNotWorkspace", root))
             ELSE updateParentRepository(
                      handleSubmoduleChanges(Begin(g), root, fail),
                      isSubmodule(root, FALSE), fail)

\* ---- nav (commands/nav.js)
\* navigateFromRoot, navigateFromWorkspace, navigateFromCurrentDir: the root
\* the browsing starts from
navRoot(d, cwd, scope) ==
    CASE scope = "all"       -> getNotedRepoRoot(d, cwd)
      [] scope = "workspace" -> getWorkspaceRoot(d, cwd)
      [] OTHER               -> cwd

navCommand(g, d, cwd, scope) ==
    IF ~Truthy(navRoot(d, cwd, scope))
    THEN Return(Tell(Begin(g), "errorNoRoot", NoRepo))
    ELSE Return(Tell(Begin(g), "navigate", RepoAt(navRoot(d, cwd, scope))))

\* ---- note, folder, workspace (part_002, part_001, part_008)
\* disk.names are the notes, folders and workspaces of the working directory.
\* A note or a folder is the file Entry(cwd) of the repository cwd lies in. A
\* workspace such a command names is a further submodule, Named, of that
\* repository; its entry and its .gitmodules line are Entry(cwd) as well.
Named == "W"

Entry(cwd) == IF Relative(cwd) = "A" THEN "A/f" ELSE "B/g"

BeginOn(g, d) == [g |-> g, d |-> d, pc |-> "run", log |-> <<>>, out |-> <<>>]

\* the working tree of r gets a change in f
Touch(g, r, f) == IF r = NoRepo THEN g ELSE [g EXCEPT !.unstaged[r] = @ \cup {f}]

\* the index of r gets a change in f
Index(g, r, f) ==
    IF r = NoRepo THEN g
    ELSE [g EXCEPT !.staged[r] = @ \cup {f}, !.unstaged[r] = @ \ {f}]

\* one step of a mutation: op leaves the repositories as g and the directory
\* with names, or rejects
Mutates(c, op, r, g, names, fail) ==
    IF c.pc # "run" THEN c
    ELSE IF fail = op THEN Rejects(c, op, r)
    ELSE [Did(c, g, Ev(op, r, "done"), op) EXCEPT !.d.names = names]

\* a git command of the parent, which git rejects outside a repository
GitMutates(c, op, r, g, fail) ==
    Mutates(c, op, r, g, c.d.names, IF r = NoRepo THEN op ELSE fail)

\* the call makes no commit
PropagateFrom_Nothing(c, cwd) == c

\* await commitChanges(currentDir, message)
PropagateFrom(c, cwd) ==
    IF c.pc # "run" THEN c
    ELSE LET s == commitChanges(c.g, [impl |-> "new", path |-> RepoAt(cwd),
                                      dir |-> Relative(cwd), branch |-> "main",
                                      failAt |-> "none"])
         IN  Did(c, s.g, Ev("commitChanges", RepoAt(cwd),
                            [ops |-> s.log, was |-> c.g.pushed, pushed |-> s.g.pushed]), "")

\* note add [note] [--untracked]
noteAdd(g, d, cwd, noteName, untracked, fail) ==
    LET finalNoteName == finalName(d.names, noteName, noteName, 1)
        r  == RepoAt(cwd)
        c0 == BeginOn(g, d)
        c1 == Mutates(c0, "writeFile", r, Touch(g, r, Entry(cwd)),
                      d.names \cup {finalNoteName}, fail)
    IN  IF isMainNotedRepo(d, cwd) THEN Return(Tell(c0, "errorMainRepo", r))
        ELSE IF c1.pc = "run" /\ untracked THEN Tell(c1, "untracked", r)
        ELSE PropagateFrom(c1, cwd)

\* note delete <note>
noteDelete(g, d, cwd, noteName, fail) ==
    LET r  == RepoAt(cwd)
        c0 == BeginOn(g, d)
        c1 == Mutates(c0, "rm", r, Touch(g, r, Entry(cwd)), d.names \ {noteName}, fail)
    IN  IF noteName \notin d.names THEN Return(Tell(c0, "errorNotFound", r))
        ELSE PropagateFrom(c1, cwd)

\* the folder is committed whatever the option says
folderAdd_Tracked(g, d, cwd, folderName, untracked, fail) ==
    LET finalFolderName == finalName(d.names, folderName, folderName, 1)
        r  == RepoAt(cwd)
        c0 == BeginOn(g, d)
        c1 == Mutates(c0, "mkdir", r, g, d.names \cup {finalFolderName}, fail)
        c2 == Mutates(c1, "writeFile", r, Touch(c1.g, r, Entry(cwd)), c1.d.names, fail)
    IN  IF isMainNotedRepo(d, cwd) THEN Return(Tell(c0, "errorMainRepo", r))
        ELSE PropagateFrom(c2, cwd)

\* folder add [name] [--untracked]
folderAdd(g, d, cwd, folderName, untracked, fail) ==
    LET finalFolderName == finalName(d.names, folderName, folderName, 1)
        r  == RepoAt(cwd)
        c0 == BeginOn(g, d)
        c1 == Mutates(c0, "mkdir", r, g, d.names \cup {finalFolderName}, fail)
        c2 == Mutates(c1, "writeFile", r, Touch(c1.g, r, Entry(cwd)), c1.d.names, fail)
    IN  IF isMainNotedRepo(d, cwd) THEN Return(Tell(c0, "errorMainRepo", r))
        ELSE IF c2.pc = "run" /\ untracked THEN Tell(c2, "untracked", r)
        ELSE PropagateFrom(c2, cwd)

\* folder delete <name>
folderDelete(g, d, cwd, folderName, fail) ==
    LET r  == RepoAt(cwd)
        c0 == BeginOn(g, d)
        c1 == Mutates(c0, "rm", r, Touch(g, r, Entry(cwd)), d.names \ {folderName}, fail)
    IN  IF folderName \notin d.names THEN Return(Tell(c0, "errorNotFound", r))
        ELSE PropagateFrom(c1, cwd)

\* workspace add --name <name> with --local and --remote both, --local,
\* --remote <url> or --remote new
workspaceAdd(g, d, cwd, name, mode, fail) ==
    LET workspaceName == finalName(d.names, name, name, 1)
        r  == RepoAt(cwd)
        c0 == BeginOn(g, d)
        c1 == Mutates(c0, "mkdir", r, Touch(g, r, Entry(cwd)),
                      d.names \cup {workspaceName}, fail)
        c2 == Mutates(c1, "init", Named, c1.g, c1.d.names, fail)
        c3 == Mutates(c2, "initWorkspace", Named, c2.g, c2.d.names, fail)
        c4 == IF mode = "local" THEN c3
              ELSE Mutates(c3, IF mode = "url" THEN "addRemote" ELSE "ghCreate", Named,
                           c3.g, c3.d.names, fail)
        c5 == GitMutates(c4, "submoduleAdd", r, Index(c4.g, r, Entry(cwd)), fail)
        c6 == PropagateFrom(c5, cwd)
    IN  IF mode = "both" THEN Return(Tell(c0, "errorBoth", r))
        ELSE IF ~isMainNotedRepo(d, cwd) THEN Return(Tell(c0, "errorNotMain", r))
        ELSE IF c6.pc = "run" THEN Tell(c6, "complete", r) ELSE c6

\* workspace delete <name>
workspaceDelete(g, d, cwd, workspaceName, fail) ==
    LET r  == RepoAt(cwd)
        c0 == BeginOn(g, d)
        c1 == GitMutates(c0, "deinit", r, g, fail)
        c2 == GitMutates(c1, "gitRm", r, Index(c1.g, r, Entry(cwd)), fail)
        c3 == Mutates(c2, "rm", r, c2.g, d.names \ {workspaceName}, fail)
    IN  IF workspaceName \notin d.names THEN Return(Tell(c0, "errorNotFound", r))
        ELSE PropagateFrom(c3, cwd)

\* workspace add-remote <name> <url>; has tells whether the workspace has an
\* origin already, which git remote add rejects
workspaceAddRemote(g, d, cwd, workspaceName, has, fail) ==
    LET r  == RepoAt(cwd)
        c0 == BeginOn(g, d)
        c1 == Mutates(c0, "addRemote", Named, g, d.names,
                      IF has THEN "addRemote" ELSE fail)
        c2 == Mutates(c1, "config", r, Touch(c1.g, r, Entry(cwd)), d.names, fail)
    IN  IF workspaceName \notin d.names THEN Return(Tell(c0, "errorNotFound", r))
        ELSE PropagateFrom(c2, cwd)

\* workspace remove-remote <name>
workspaceRemoveRemote(g, d, cwd, workspaceName, has, fail) ==
    LET r  == RepoAt(cwd)
        c0 == BeginOn(g, d)
        c1 == Mutates(c0, "removeRemote", Named, g, d.names, fail)
        c2 == Mutates(c1, "config", r, Touch(c1.g, r, Entry(cwd)), d.names, fail)
    IN  IF workspaceName \notin d.names THEN Return(Tell(c0, "errorNotFound", r))
        ELSE IF ~has THEN Return(Tell(c0, "errorNoOrigin", r))
        ELSE PropagateFrom(c2, cwd)

\* ---- the commands as actions
Fails == {"none", "toplevel", "isSubmodule", "status", "remotes", "add", "commit", "push"}

\* a command ran to its end as c
Command(kind, args, c, res) ==
    /\ ~called
    /\ cmd.kind = "none"
    /\ Install(c.g)
    /\ cmd' = [kind |-> kind, args |-> args, pre |-> Snapshot, log |-> c.log,
               out |-> c.out, res |-> res]
    /\ called' = TRUE
    /\ UNCHANGED <<last, quiet, nrep, nenv, disk>>

UpdateCmd ==
    \E cwd \in Tree, all \in BOOLEAN, fail \in Fails :
        Command("update", <<cwd, all, fail>>, updateCommand(Snapshot, disk, cwd, all, fail),
                toplevel(disk, cwd, fail = "toplevel"))

UploadCmd ==
    \E cwd \in Tree, all \in BOOLEAN, fail \in Fails \ {"toplevel"} :
        Command("upload", <<cwd, all, fail>>, uploadCommand(Snapshot, disk, cwd, all, fail),
                findWorkspaceRoot(disk, cwd))

NavCmd ==
    \E cwd \in Tree, scope \in {"all", "workspace", "current"} :
        Command("nav", <<cwd, scope, "none">>, navCommand(Snapshot, disk, cwd, scope),
                navRoot(disk, cwd, scope))

\* a mutating command ran to its end as c
Mutation(kind, args, c) ==
    /\ ~called
    /\ cmd.kind = "none"
    /\ Install(c.g)
    /\ disk' = c.d
    /\ cmd' = [kind |-> kind, args |-> args, pre |-> Snapshot, dir |-> disk,
               log |-> c.log, out |-> c.out, res |-> c.pc]
    /\ called' = TRUE
    /\ UNCHANGED <<last, quiet, nrep, nenv>>

\* the directories the mutating commands are run in
Cwds == {"/x", "/g", "/g/p/s", "/g/p/s/A"}

NoteAddCmd ==
    \E cwd \in Cwds, n \in Bases, u \in BOOLEAN, fail \in {"none", "writeFile"} :
        Mutation("noteAdd", <<cwd, n, u, fail>>, noteAdd(Snapshot, disk, cwd, n, u, fail))

NoteDeleteCmd ==
    \E cwd \in Cwds, n \in Bases, fail \in {"none", "rm"} :
        Mutation("noteDelete", <<cwd, n, "none", fail>>,
                 noteDelete(Snapshot, disk, cwd, n, fail))

FolderAddCmd ==
    \E cwd \in Cwds, n \in Bases, u \in BOOLEAN, fail \in {"none", "mkdir", "writeFile"} :
        Mutation("folderAdd", <<cwd, n, u, fail>>,
                 folderAdd(Snapshot, disk, cwd, n, u, fail))

FolderDeleteCmd ==
    \E cwd \in Cwds, n \in Bases, fail \in {"none", "rm"} :
        Mutation("folderDelete", <<cwd, n, "none", fail>>,
                 folderDelete(Snapshot, disk, cwd, n, fail))

WorkspaceAddCmd ==
    \E cwd \in Cwds, n \in Bases, mode \in {"both", "local", "url", "new"},
       fail \in {"none", "mkdir", "ghCreate", "submoduleAdd"} :
        Mutation("workspaceAdd", <<cwd, n, mode, fail>>,
                 workspaceAdd(Snapshot, disk, cwd, n, mode, fail))

WorkspaceDeleteCmd ==
    \E cwd \in Cwds, n \in Bases, fail \in {"none", "deinit", "gitRm"} :
        Mutation("workspaceDelete", <<cwd, n, "none", fail>>,
                 workspaceDelete(Snapshot, disk, cwd, n, fail))

WorkspaceAddRemoteCmd ==
    \E cwd \in Cwds, n \in Bases, has \in BOOLEAN, fail \in {"none", "config"} :
        Mutation("workspaceAddRemote", <<cwd, n, has, fail>>,
                 workspaceAddRemote(Snapshot, disk, cwd, n, has, fail))

WorkspaceRemoveRemoteCmd ==
    \E cwd \in Cwds, n \in Bases, has \in BOOLEAN, fail \in {"none", "removeRemote", "config"} :
        Mutation("workspaceRemoveRemote", <<cwd, n, has, fail>>,
                 workspaceRemoveRemote(Snapshot, disk, cwd, n, has, fail))

\* the repositories when a command starts: each has a commit on top of its
\* first, maybe a change in its working tree, and no origin, an origin that
\* main does not track, or one that main tracks and is or is not level with
Second(r) ==
    [parent |-> 1, files |-> {"A/f"}, tree |-> [f \in Files |-> IF f = "A/f" THEN 2 ELSE 1],
     ptr |-> IF Child(r) = NoRepo THEN 0 ELSE 2]

Remotes ==
    {[origin |-> "none", pushed |-> 0], [origin |-> "plain", pushed |-> 2],
     [origin |-> "tracked", pushed |-> 1], [origin |-> "tracked", pushed |-> 2]}

InitCmd ==
    /\ unstaged \in [Repos -> {{}, {"A/f"}}]
    /\ staged = InitGit.staged
    /\ idxptr = [r \in Repos |-> Second(r).ptr]
    /\ commits = [r \in Repos |-> <<RootCommit(r), Second(r)>>]
    /\ head = InitGit.head
    /\ headc = [r \in Repos |-> 2]
    /\ branches = [r \in Repos |-> [b \in Branches |-> IF b = "main" THEN 2 ELSE 0]]
    /\ \E rem \in [Repos -> Remotes] :
         /\ origin = [r \in Repos |-> rem[r].origin]
         /\ pushed = [r \in Repos |-> rem[r].pushed]
    /\ last = [args |-> NoArgs, pre |-> InitGit, log |-> <<>>, out |-> <<>>,
               ret |-> "none", again |-> FALSE, before |-> NoBefore]
    /\ quiet = FALSE
    /\ called = FALSE
    /\ nrep = 0
    /\ nenv = 0
    /\ cmd = NoCmd
    /\ disk \in {RealFs, [RealFs EXCEPT !.names = {<<"n">>}]}

NextCmd ==
    \/ UpdateCmd
    \/ UploadCmd
    \/ NavCmd
    \/ NoteAddCmd
    \/ NoteDeleteCmd
    \/ FolderAddCmd
    \/ FolderDeleteCmd
    \/ WorkspaceAddCmd
    \/ WorkspaceDeleteCmd
    \/ WorkspaceAddRemoteCmd
    \/ WorkspaceRemoveRemoteCmd
    \/ Call
    \/ HelperCall

SpecCmd == InitCmd /\ [][NextCmd]_vars

\* ---- start (part_003, and the two earlier versions in part_004)
\* the repository start creates; c.n is what start has made of it: whether it
\* has a remote named origin and the versions of .notedconfig written so far
New == "N"

BeginStart(g, d) ==
    [g |-> g, d |-> d, pc |-> "run", log |-> <<>>, out |-> <<>>,
     n |-> [origin |-> FALSE, config |-> <<>>]]

\* --remote: absent, the flag alone (true), "new", a URL, another string
RemoteOptions == {Undefined, "true", "new", "https://h/r.git", "www.h/r.git"}

\* new URL(url) does not throw
isValidUrl(url) == url = "https://h/r.git"

\* repoType.toLowerCase()
ToLowerCase(repoType) == IF repoType = "Local" THEN "local" ELSE "remote"

\* getRepoType
getRepoType(local, remote, answer) ==
    IF local THEN "Local" ELSE IF Truthy(remote) THEN "Remote" ELSE answer

\* getRemoteOption; the prompt gives "new" or a URL it has validated
getRemoteOption(remote, repoType, answer) ==
    IF repoType = "Remote"
    THEN IF Truthy(remote) THEN remote ELSE answer
    ELSE Null

\* an operation in the new repository or its directory
NewOp(c, op, fail) == Mutates(c, op, New, c.g, c.d.names, fail)

\* git.addRemote('origin', url), gh repo create --remote=origin
SetOrigin(c, op, fail) ==
    IF NewOp(c, op, fail).pc = "run"
    THEN [NewOp(c, op, fail) EXCEPT !.n.origin = TRUE]
    ELSE NewOp(c, op, fail)

\* fs.writeFileSync(configPath, JSON.stringify(configContent, null, 2))
WriteConfig(c, configContent) ==
    IF c.pc # "run" THEN c
    ELSE [Did(c, c.g, Ev("writeConfig", New, configContent), "config")
             EXCEPT !.n.config = Append(@, configContent)]

\* git.add([...]); git.commit(...)
AddCommit(c, fail) == NewOp(NewOp(c, "add", fail), "commit", fail)

\* git.push('origin', 'main') in the new repository: git rejects it when no
\* remote is named origin
PushNew(c, fail) ==
    IF c.pc # "run" THEN c
    ELSE IF ~c.n.origin \/ fail = "push" THEN Rejects(c, "push", New)
    ELSE Did(c, c.g, Ev("push", New, "ok"), "pushed")

\* the directory is made without a look whether it exists
setupRepoAndGit_NoCheck(c, repoName, fail) ==
    NewOp(Mutates(c, "mkdir", New, c.g, c.d.names \cup {repoName}, fail), "init", fail)

\* fs.existsSync(repoPath): error and throw; else mkdirSync and git.init()
setupRepoAndGit(c, repoName, fail) ==
    IF repoName \in c.d.names
    THEN [Tell(Tell(c, "errorExists", New), "error", New) EXCEPT !.pc = "caught"]
    ELSE NewOp(Mutates(c, "mkdir", New, c.g, c.d.names \cup {repoName}, fail),
               "init", fail)

Config(parent, type, url) ==
    [parent_type |-> parent, remote_type |-> type, remote_url |-> url]

\* parentSetup of part_003
parentSetup(c, repoName, repoType, remoteOption, fail) ==
    LET c1 == setupRepoAndGit(c, repoName, fail)
        c2 == NewOp(c1, "writeFile", fail)
        c3 == AddCommit(WriteConfig(c2, Config(ToLowerCase(repoType), Null, Null)), fail)
        \* initGithubParent
        h1 == SetOrigin(c3, "ghCreate", fail)
        h2 == AddCommit(WriteConfig(h1, Config(ToLowerCase(repoType), "github",
                                               "https://github.com/u/n.git")), fail)
        \* initUrlParent
        u1 == SetOrigin(c3, "addRemote", fail)
        u2 == AddCommit(WriteConfig(u1, Config(ToLowerCase(repoType), "url",
                                               remoteOption)), fail)
    IN  IF repoType = "Remote"
        THEN PushNew(IF remoteOption = "new" THEN h2
                     ELSE IF isValidUrl(remoteOption) THEN u2
                     ELSE c3, fail)
        ELSE c3

\* start of part_003: --local, --remote [url], the answers to the prompts
startCommand(g, d, repoName, local, remote, typeAnswer, remoteAnswer, fail) ==
    LET repoType == getRepoType(local, remote, typeAnswer)
        remoteOption == getRemoteOption(remote, repoType, remoteAnswer)
        c == parentSetup(BeginStart(g, d), repoName, repoType, remoteOption, fail)
    IN  IF local /\ Truthy(remote)
        THEN Return(Tell(BeginStart(g, d), "errorBoth", New))
        ELSE IF c.pc = "run" THEN Tell(c, "complete", New) ELSE c

\* initLocal, initGithub, initUrl and handleRemoteSetup of part_004 1-227:
\* initGithub catches its error and does not throw it on
initKind(c, kind, url, fail) ==
    LET h1 == SetOrigin(NewOp(c, "ghCreate", fail), "addRemote", fail)
        h2 == AddCommit(WriteConfig(NewOp(h1, "writeFile", fail),
                                    Config("remote", "github",
                                           "https://github.com/your-username/n.git")),
                        fail)
        u1 == SetOrigin(c, "addRemote", fail)
        u2 == AddCommit(WriteConfig(NewOp(u1, "writeFile", fail),
                                    Config("remote", "url", url)), fail)
        l2 == AddCommit(WriteConfig(NewOp(c, "writeFile", fail),
                                    Config("local", Null, Null)), fail)
    IN  CASE kind = "local"  -> l2
          [] kind = "github" -> IF c.pc = "run" THEN [h2 EXCEPT !.pc = "run"] ELSE c
          [] OTHER           -> u2

\* start of part_004 1-227
startSetup(g, d, repoName, local, remote, typeAnswer, remoteAnswer, fail) ==
    LET c1 == setupRepoAndGit(BeginStart(g, d), repoName, fail)
        prompted == IF remoteAnswer = "new" THEN initKind(c1, "github", Null, fail)
                    ELSE initKind(c1, "url", remoteAnswer, fail)
        c2 == IF ~local /\ ~Truthy(remote)
              THEN IF typeAnswer = "Local" THEN initKind(c1, "local", Null, fail)
                   ELSE prompted
              ELSE IF local THEN initKind(c1, "local", Null, fail)
              ELSE IF remote = "new" THEN initKind(c1, "github", Null, fail)
              ELSE IF isValidUrl(remote) THEN initKind(c1, "url", remote, fail)
              ELSE prompted
    IN  IF local /\ Truthy(remote)
        THEN Return(Tell(BeginStart(g, d), "errorBoth", New))
        ELSE IF c2.pc = "run" THEN Tell(c2, "complete", New) ELSE c2

\* start of part_004 229-297: --remote <url> only, the name is Noted
startFirst(g, d, repoName, remote, fail) ==
    LET c0 == BeginStart(g, d)
        c1 == NewOp(Mutates(c0, "mkdir", New, g, d.names \cup {repoName}, fail),
                    "init", fail)
        c2 == IF Truthy(remote) THEN SetOrigin(c1, "addRemote", fail) ELSE c1
        c3 == WriteConfig(NewOp(c2, "writeFile", fail),
                          [remote |-> IF Truthy(remote) THEN remote ELSE Null])
        c4 == AddCommit(c3, fail)
    IN  IF repoName \in d.names THEN Return(Tell(c0, "errorExists", New))
        ELSE IF c4.pc = "run" THEN Tell(c4, "complete", New) ELSE c4

StartFails == {"none", "mkdir", "ghCreate", "addRemote", "commit", "push"}

\* noted start, in each of its versions
StartCmd ==
    \E n \in Bases, local \in BOOLEAN, remote \in RemoteOptions,
       typeAnswer \in {"Local", "Remote"}, remoteAnswer \in {"new", "https://h/r.git"},
       fail \in StartFails :
        \/ Mutation("start", <<"part_003", n, local, remote, typeAnswer, remoteAnswer, fail>>,
                    startCommand(Snapshot, disk, n, local, remote, typeAnswer,
                                 remoteAnswer, fail))
        \/ Mutation("start", <<"part_004", n, local, remote, typeAnswer, remoteAnswer, fail>>,
                    startSetup(Snapshot, disk, n, local, remote, typeAnswer,
                               remoteAnswer, fail))
        \/ /\ ~local /\ remote # "true"
           /\ typeAnswer = "Local" /\ remoteAnswer = "new"
           /\ Mutation("start", <<"part_004 first", n, local, remote, typeAnswer,
                                  remoteAnswer, fail>>,
                       startFirst(Snapshot, disk, n, remote, fail))

\* the repositories and the directory when start, or a command that checks a
\* precondition, is run
InitStart ==
    /\ unstaged \in [Repos -> {{}, {"A/f"}}]
    /\ staged = InitGit.staged
    /\ idxptr = [r \in Repos |-> Second(r).ptr]
    /\ commits = [r \in Repos |-> <<RootCommit(r), Second(r)>>]
    /\ head = InitGit.head
    /\ headc = [r \in Repos |-> 2]
    /\ branches = [r \in Repos |-> [b \in Branches |-> IF b = "main" THEN 2 ELSE 0]]
    /\ origin = InitGit.origin
    /\ pushed = InitGit.pushed
    /\ last = [args |-> NoArgs, pre |-> InitGit, log |-> <<>>, out |-> <<>>,
               ret |-> "none", again |-> FALSE, before |-> NoBefore]
    /\ quiet = FALSE
    /\ called = FALSE
    /\ nrep = 0
    /\ nenv = 0
    /\ cmd = NoCmd
    /\ disk \in {RealFs, [RealFs EXCEPT !.names = {<<"n">>}]}

NextStart ==
    \/ StartCmd
    \/ NoteAddCmd
    \/ NoteDeleteCmd
    \/ FolderAddCmd
    \/ FolderDeleteCmd
    \/ WorkspaceDeleteCmd

SpecStart == InitStart /\ [][NextStart]_vars

\* ---- a repository left detached (part_009 27-38)
\* a commit that is on no local branch: it came with a fetch and changes B/g
Third(r) ==
    [parent |-> 2, files |-> {"B/g"},
     tree |-> [f \in Files |-> IF f = "A/f" THEN 2 ELSE 3], ptr |-> Second(r).ptr]

\* one repository is detached at any of its commits (a submodule checkout of
\* the commit its superproject records); main is at the second commit and dev
\* does not exist or is at the third
InitDetached ==
    /\ unstaged = InitGit.unstaged
    /\ staged = InitGit.staged
    /\ commits = [r \in Repos |-> <<RootCommit(r), Second(r), Third(r)>>]
    /\ \E d \in Repos, c \in 1..3 :
         /\ head = [r \in Repos |-> IF r = d THEN Detached ELSE "main"]
         /\ headc = [r \in Repos |-> IF r = d THEN c ELSE 2]
         /\ idxptr = [r \in Repos |-> commits[r][IF r = d THEN c ELSE 2].ptr]
    /\ \E v \in {0, 3} :
         branches = [r \in Repos |-> [b \in Branches |-> IF b = "main" THEN 2 ELSE v]]
    /\ last = [args |-> NoArgs, pre |-> InitGit, log |-> <<>>, out |-> <<>>,
               ret |-> "none", again |-> FALSE, before |-> NoBefore]
    /\ quiet = FALSE
    /\ called = FALSE
    /\ nrep = 0
    /\ nenv = 0
    /\ origin = InitGit.origin
    /\ pushed = InitGit.pushed
    /\ cmd = NoCmd
    /\ disk = RealFs

NextDetached ==
    \/ \E r \in Repos, f \in Files : Edit(r, f)
    \/ Call
    \/ HelperCall

SpecDetached == InitDetached /\ [][NextDetached]_vars

\* ------------------------------------------------------------------ claims
\* a call has ended
Finished == last.args.impl # "none"

\* the repository the last call was run in
Target == last.args.path

Printed(line) == \E i \in 1..Len(last.out) : last.out[i] = line

\* the last call reached its catch block
Failed == Printed("error")

\* a call has ended with no operation failing for an outside reason and no
\* error reported
Clean == Finished /\ last.args.failAt = "none" /\ ~Failed

\* commits the last call added to r
Made(r) == Len(commits[r]) - Len(last.pre.commits[r])

\* the commit HEAD of r is at
Tip(r) == commits[r][headc[r]]

\* changes of r that no commit holds
Uncommitted(r) == unstaged[r] \cup staged[r]

\* changes of r that no commit held when the last call began
Pending(r) == last.pre.unstaged[r] \cup last.pre.staged[r]

\* log entries of the last call
Ops == {last.log[i] : i \in 1..Len(last.log)}

\* C1: every commit the call invokes, in the target repository or in its
\* superproject, finds at least one staged change in the index.
C1_CommitOnlyWhenStaged ==
    \A e \in Ops : (e.op = "commit" /\ e.ok) => e.entries # {}

\* C2: with changes pending under A and under B (unstaged or staged before the
\* call), a call for A that reports no error makes one commit holding only the
\* change under A, and the change under B stays uncommitted.
C2_ScopedCommit ==
    (/\ Clean
     /\ last.args.dir = "A"
     /\ "A/f" \in Pending(Target)
     /\ "B/g" \in Pending(Target))
    => /\ Made(Target) = 1
       /\ Tip(Target).files = {"A/f"}
       /\ "B/g" \in Uncommitted(Target)

\* all that git holds of r, now and when the last call began
RepoState(g, r) ==
    [unstaged |-> g.unstaged[r], staged |-> g.staged[r], idxptr |-> g.idxptr[r],
     commits |-> g.commits[r], head |-> g.head[r], headc |-> g.headc[r],
     branches |-> g.branches[r], origin |-> g.origin[r], pushed |-> g.pushed[r]]

Untouched(r) == RepoState(Snapshot, r) = RepoState(last.pre, r)

C4_RepeatReportsNothingToCommit ==
    (/\ Clean /\ last.again
     /\ last.before.made[Target] = 1
     /\ \A i \in 1..Len(last.before.out) : last.before.out[i] # "error")
    => /\ ~Printed("committed")
       /\ ~Printed("committedSub")
       /\ \A r \in Repos : Made(r) = 0

C7_AtMostTwoRepos ==
    Finished =>
       /\ \A e \in Ops : e.repo \in {Target, Super(Target)}
       /\ \A e \in Ops : e.op = "superproject" => e.repo = Target
       /\ Cardinality({i \in 1..Len(last.log) : last.log[i].op = "superproject"}) <= 1
       /\ \A r \in Repos \ {Target, Super(Target)} : Untouched(r)

C7_Witness ==
    /\ Clean /\ Target = "S"
    /\ Made("S") = 1 /\ Made("P") = 1
    /\ idxptr["G"] # headc["P"]
    /\ Untouched("G")

\* C8: nothing is rolled back.  When the add or the commit in the superproject
\* fails, the commit made in the target repository is still its HEAD when the
\* call ends; when the commit in the target repository fails, what the add
\* staged is still staged.
C8_NoRollback ==
    Finished =>
       /\ \A e \in Ops :
            (/\ last.args.failAt \in {"parentAdd", "parentCommit"}
             /\ e.op = "commit" /\ e.repo = Target /\ e.ok /\ e.entries # {})
            => /\ Made(Target) = 1
               /\ headc[Target] = Len(commits[Target])
               /\ Tip(Target).files = e.entries
       /\ last.args.failAt = "commit" =>
            /\ Made(Target) = 0
            /\ staged[Target] = last.pre.staged[Target] \cup
                   {f \in last.pre.unstaged[Target] : Under(last.args.dir, f)}
            /\ unstaged[Target] =
                   {f \in last.pre.unstaged[Target] : ~Under(last.args.dir, f)}

C8_Witness ==
    /\ Finished /\ Failed
    /\ last.args.failAt = "parentCommit"
    /\ Made(Target) = 1
    /\ Made(Super(Target)) = 0
    /\ SubStaged(Snapshot, Super(Target))

\* C9: a call returns to its caller an outcome out of committed,
\* nothing-to-commit, pushed, push-skipped-no-remote and failed, and returns
\* failed exactly when the root resolution, a stage or a commit failed.
C9_ReturnsOutcome ==
    Finished => /\ last.ret \in {"committed", "nothing-to-commit", "pushed",
                                 "push-skipped-no-remote", "failed"}
                /\ Failed <=> last.ret = "failed"

\* C10: when the add in the target repository leaves the index without changes,
\* the call invokes no commit there, still asks for the superproject and, if
\* there is one, still adds in it.
C10_SkipsCommitWhenNothingStaged ==
    (/\ Finished /\ last.args.failAt = "none"
     /\ \E e \in Ops : e.op = "add" /\ e.repo = Target /\ e.ok /\ e.index = {})
    => /\ \A e \in Ops : ~(e.op = "commit" /\ e.repo = Target)
       /\ \E e \in Ops : e.op = "superproject"
       /\ Super(Target) # NoRepo => \E e \in Ops : e.op = "add" /\ e.repo = Super(Target)

\* C13: when the call stages and commits in the superproject, the only entry it
\* stages there is the submodule's, every other change pending in the
\* superproject is as it was, and the superproject's commit holds that entry only.
C13_ParentStagesOnlySubmodule ==
    (/\ Clean
     /\ Super(Target) # NoRepo
     /\ last.args.dir = ".")
    => /\ \A e \in Ops : (e.op = "add" /\ e.repo = Super(Target)) => e.entries \subseteq {Sub}
       /\ unstaged[Super(Target)] = last.pre.unstaged[Super(Target)]
       /\ Made(Super(Target)) = 1 => Tip(Super(Target)).files = {Sub}

\* C20: a call of part_009's commitChanges on a repository that is on a branch
\* checks nothing out and creates no branch: the repository stays on its branch,
\* the other branches stay where they were, and the commit made is the tip of
\* the branch that was checked out, whatever the branch argument.
C20_NamedBranchUntouched ==
    (/\ Finished /\ Target # NoRepo
     /\ last.args.impl = "new"
     /\ last.pre.head[Target] # Detached)
    => /\ \A e \in Ops : e.op \notin {"checkout", "checkoutLocal"}
       /\ head[Target] = last.pre.head[Target]
       /\ \A b \in Branches \ {head[Target]} :
            branches[Target][b] = last.pre.branches[Target][b]
       /\ branches[Target][head[Target]] = headc[Target]
       /\ Made(Target) <= 1
       /\ Made(Target) = 1 =>
            /\ headc[Target] = Len(commits[Target])
            /\ Tip(Target).parent = last.pre.headc[Target]

C20_Witness ==
    /\ Finished /\ Target # NoRepo
    /\ last.args.impl = "new"
    /\ last.pre.head[Target] = "main"
    /\ last.args.branch = "dev"
    /\ Made(Target) = 1
    /\ head[Target] = "main"
    /\ branches[Target]["dev"] = 0
    /\ branches[Target]["main"] = Len(commits[Target])

RECURSIVE Ancestors(_)
Ancestors(p) == {p} \cup (IF Dirname(p) = p THEN {} ELSE Ancestors(Dirname(p)))

\* the closest of them that is in marks
Closest(marks, p) ==
    IF Ancestors(p) \cap marks = {} THEN Null
    ELSE CHOOSE c \in Ancestors(p) \cap marks :
             \A c2 \in Ancestors(p) \cap marks : c2 \in Ancestors(c)

\* C15: every upward walk returns the closest directory, among the start path
\* and its ancestors up to and including the root, that holds the marker, and
\* null only when none of them holds it.
C15_WalkFindsClosest ==
    cmd.kind \in {"findWorkspaceRoot", "getNotedRepoRoot", "getWorkspaceRoot"} =>
        cmd.res = Closest(IF cmd.kind = "getNotedRepoRoot" THEN disk.config ELSE disk.git,
                          cmd.args[1])

\* C19: the name chosen is the base when the base is free, and otherwise the base
\* with the smallest counter k >= 1 that is free; it is never a name that
\* exists, and the entries that existed are still there.
C19_NextAvailableName ==
    cmd.kind = "name" =>
        LET base == cmd.args[1]
            existing == cmd.args[2]
        IN  /\ cmd.res \notin existing
            /\ base \notin existing => cmd.res = base
            /\ base \in existing =>
                 \E k \in 1..(Cardinality(existing) + 1) :
                     /\ cmd.res = Append(base, k)
                     /\ \A j \in 1..(k - 1) : Append(base, j) \in existing
            /\ disk.names = existing \cup {cmd.res}

C19_Witness ==
    /\ cmd.kind = "name"
    /\ cmd.args[1] = <<"n">>
    /\ {<<"n">>, <<"n", 1>>} \subseteq cmd.args[2]
    /\ <<"n", 2>> \notin cmd.args[2]
    /\ cmd.res = <<"n", 2>>

\* C12: no call of commitChanges pushes: a call made directly and every call an
\* update makes issue no push and leave origin's main where it was, with and
\* without an origin, with and without a commit made.
C12_NeverPushes ==
    /\ Finished => /\ \A e \in Ops : e.op # "push"
                   /\ pushed = last.pre.pushed
    /\ \A i \in 1..Len(cmd.log) :
         cmd.log[i].op = "commitChanges" =>
             /\ cmd.log[i].info.pushed = cmd.log[i].info.was
             /\ \A k \in 1..Len(cmd.log[i].info.ops) :
                  cmd.log[i].info.ops[k].op # "push"

C12_Witness ==
    /\ Clean /\ Target # NoRepo
    /\ origin[Target] = "tracked"
    /\ pushed[Target] = 1
    /\ Made(Target) = 1
    /\ Ahead(Snapshot, Target) = 2

Told(line, r) == \E i \in 1..Len(cmd.out) : cmd.out[i] = <<line, r>>

\* C16: update and upload push a repository only if it has a remote named
\* origin, and update only if the status it read showed changes or commits
\* ahead; a repository they got to and did not push gets a skip message, when
\* no operation fails for an outside reason.
C16_PushOnlyWithOrigin ==
    cmd.kind \in {"update", "upload"} =>
        /\ \A j \in 1..Len(cmd.log) :
             cmd.log[j].op = "push" =>
                 /\ cmd.pre.origin[cmd.log[j].repo] # "none"
                 /\ cmd.kind = "update" =>
                      \E i \in 1..(j - 1) :
                          /\ cmd.log[i].op = "status"
                          /\ cmd.log[i].repo = cmd.log[j].repo
                          /\ cmd.log[i].info.hasChanges \/ cmd.log[i].info.ahead > 0
        /\ \A r \in Repos :
             (/\ cmd.args[3] = "none"
              /\ \E i \in 1..Len(cmd.log) :
                   cmd.log[i].op = "remotes" /\ cmd.log[i].repo = r)
             => (\E j \in 1..Len(cmd.log) : cmd.log[j].op = "push" /\ cmd.log[j].repo = r)
                    <=> ~(Told("noOrigin", r) \/ Told("noNewCommits", r))

C16_Witness ==
    /\ cmd.kind = "update"
    /\ cmd.args[3] = "none"
    /\ \E j \in 1..Len(cmd.log) : cmd.log[j].op = "push" /\ cmd.log[j].repo = "S"
    /\ Told("noOrigin", "P")

\* C17: in update, for each repository, the status and the remotes that decide
\* the push are read after commitChanges has returned for that repository.
C17_ReadsAfterCommit ==
    cmd.kind = "update" =>
        \A i, j \in 1..Len(cmd.log) :
            (/\ cmd.log[i].op = "commitChanges"
             /\ cmd.log[j].op \in {"status", "remotes"}
             /\ cmd.log[j].repo = cmd.log[i].repo)
            => i < j

\* the commands that change a note, a folder or a workspace, and the steps of
\* their mutations
Mutating ==
    {"noteAdd", "noteDelete", "folderAdd", "folderDelete", "workspaceAdd",
     "workspaceDelete", "workspaceAddRemote", "workspaceRemoveRemote"}

\* the last command was one of them and its mutation went through
Mutated ==
    /\ cmd.kind \in Mutating
    /\ cmd.res = "run"
    /\ \E i \in 1..Len(cmd.log) : cmd.log[i].op # "commitChanges"

\* its operations are the steps of the mutation and then one commitChanges
EndsWithCommit ==
    /\ cmd.log[Len(cmd.log)].op = "commitChanges"
    /\ \A i \in 1..(Len(cmd.log) - 1) : cmd.log[i].op # "commitChanges"

Untracked == cmd.kind \in {"noteAdd", "folderAdd"} /\ cmd.args[3]

\* C18 as stated: every mutating command whose mutation succeeded calls
\* commitChanges after the mutation, as its last operation on a repository,
\* whatever its options.
C18_MutationThenCommit == Mutated => EndsWithCommit

\* C18: every mutating command whose mutation succeeded calls commitChanges
\* after the mutation, as its last operation on a repository, except note add
\* and folder add with --untracked, which do not call it and make no commit.
C18_MutationThenCommitUnlessUntracked ==
    Mutated =>
        IF Untracked
        THEN /\ \A i \in 1..Len(cmd.log) : cmd.log[i].op # "commitChanges"
             /\ headc = cmd.pre.headc
        ELSE EndsWithCommit

C18_Witness ==
    /\ Mutated
    /\ cmd.kind = "workspaceAdd"
    /\ cmd.args[3] = "url"
    /\ EndsWithCommit
    /\ headc["G"] = cmd.pre.headc["G"] + 1

\* commits of r that HEAD or a branch of g reaches
Reachable(g, r) ==
    History(g, r, g.headc[r])
        \cup UNION {History(g, r, g.branches[r][b]) : b \in Branches}

\* commits of r that a branch of g reaches
OnBranch(g, r) == UNION {History(g, r, g.branches[r][b]) : b \in Branches}

\* C26: when a call that began on a detached HEAD has made its commit, the
\* commit that was checked out when the call began is an ancestor of the new
\* commit, and every commit that HEAD or a branch reached before the call is
\* reached by a branch after it.
C26_DetachedCommitKept ==
    (/\ Finished /\ Target # NoRepo
     /\ last.args.impl = "new"
     /\ last.args.failAt = "none"
     /\ last.pre.head[Target] = Detached
     /\ Made(Target) = 1)
    => /\ last.pre.headc[Target] \in History(Snapshot, Target, headc[Target])
       /\ Reachable(last.pre, Target) \subseteq OnBranch(Snapshot, Target)

\* the directory the last command takes for the main repository holds no
\* .notedconfig: the working directory of workspace add, the root that update
\* --all and upload --all resolved, if any
NotMain ==
    \/ cmd.kind = "workspaceAdd" /\ cmd.args[1] \notin cmd.dir.config
    \/ /\ cmd.kind \in {"update", "upload"}
       /\ cmd.args[2]
       /\ cmd.res = Null \/ cmd.res \notin disk.config

\* C22: workspace add, update --all and upload --all run where the main
\* repository's .notedconfig is absent print an error and do nothing else: no
\* directory is made, no git operation is run, commitChanges is not called, and
\* the repositories and the directory are as before.
C22_GatedOnConfig ==
    NotMain =>
        /\ cmd.log = <<>>
        /\ Snapshot = cmd.pre
        /\ cmd.kind = "workspaceAdd" => disk = cmd.dir
        /\ cmd.out \in {<< <<e, RepoAt(IF cmd.kind = "workspaceAdd" THEN cmd.args[1]
                                       ELSE cmd.res)>> >> :
                            e \in {"errorNotMain", "errorNoRoot", "errorBoth"}}

C22_Witness ==
    /\ cmd.kind = "update"
    /\ cmd.args[1] = "/g/p"
    /\ cmd.args[2]
    /\ cmd.pre.unstaged["S"] # {}
    /\ cmd.out = << <<"errorNotMain", "P">> >>

\* C23: update pushes a repository only if the commitChanges call it made for
\* that repository before went through: no add or commit inside it failed.
C23_NoPushAfterFailedCommit ==
    cmd.kind = "update" =>
        \A i, j \in 1..Len(cmd.log) :
            (/\ i < j
             /\ cmd.log[j].op = "push"
             /\ cmd.log[i].op = "commitChanges"
             /\ cmd.log[i].repo = cmd.log[j].repo)
            => \A k \in 1..Len(cmd.log[i].info.ops) : cmd.log[i].info.ops[k].ok

\* C24: update run in a workspace with uncommitted changes, all operations
\* succeeding, with an origin on the parent: when the command has ended the
\* parent's origin has the commit the cascade made in the parent, with and
\* without an upstream configured for the parent's branch.
C24_CascadeCommitPushed ==
    (/\ cmd.kind = "update"
     /\ ~cmd.args[2]
     /\ cmd.args[3] = "none"
     /\ cmd.res # Null
     /\ Super(RepoAt(cmd.res)) # NoRepo
     /\ Dirty(cmd.pre, RepoAt(cmd.res))
     /\ HasOrigin(cmd.pre, Super(RepoAt(cmd.res))))
    => LET p == Super(RepoAt(cmd.res))
       IN  /\ headc[p] > cmd.pre.headc[p]
           /\ pushed[p] = headc[p]

\* C25: update and upload push the parent only if the workspace they handled
\* before, when it has an origin and got a commit in this run, was pushed
\* without failure.
C25_ParentPushAfterWorkspacePush ==
    cmd.kind \in {"update", "upload"} =>
        \A j \in 1..Len(cmd.log) :
            LET p == cmd.log[j].repo
                w == Child(p)
            IN  (/\ cmd.log[j].op = "push"
                 /\ \E i \in 1..(j - 1) : cmd.log[i].repo = w
                 /\ HasOrigin(cmd.pre, w)
                 /\ headc[w] # cmd.pre.headc[w])
                => \E i \in 1..(j - 1) :
                       /\ cmd.log[i].op = "push"
                       /\ cmd.log[i].repo = w
                       /\ cmd.log[i].info = "ok"

\* C29: note add and folder add with the untracked option that went through
\* have written the note, or made the folder and written its .gitkeep, under
\* the name chosen, and have run no git operation: index, commits and branches
\* of every repository are as before.
C29_UntrackedLeavesGitAlone ==
    (Untracked /\ cmd.res = "run")
    => /\ \A i \in 1..Len(cmd.log) : cmd.log[i].op \in {"mkdir", "writeFile"}
       /\ cmd.log[Len(cmd.log)].op = "writeFile"
       /\ cmd.kind = "folderAdd" => cmd.log[1].op = "mkdir"
       /\ disk.names = cmd.dir.names
              \cup {finalName(cmd.dir.names, cmd.args[2], cmd.args[2], 1)}
       /\ [Snapshot EXCEPT !.unstaged = cmd.pre.unstaged] = cmd.pre

C29_Witness ==
    /\ Untracked /\ cmd.res = "run"
    /\ cmd.kind = "folderAdd"
    /\ cmd.args[1] = "/g/p/s/A"
    /\ <<"n">> \in cmd.dir.names
    /\ <<"n", 1>> \in disk.names
    /\ "A/f" \in unstaged["S"] \ cmd.pre.unstaged["S"]

\* the versions of .notedconfig the last command wrote, in order
Configs == SelectSeq(cmd.log, LAMBDA e : e.op = "writeConfig")

\* the schema of .notedconfig (createdAt left out)
WellFormed(cfg) ==
    /\ DOMAIN cfg = {"parent_type", "remote_type", "remote_url"}
    /\ cfg.parent_type \in {"local", "remote"}
    /\ cfg.remote_type \in {"github", "url", Null}
    /\ cfg.remote_type = Null <=> cfg.remote_url = Null
    /\ cfg.parent_type = "local" => cfg.remote_type = Null /\ cfg.remote_url = Null

\* C21: every version of .notedconfig that a run of start writes has
\* parent_type local or remote, remote_type github, url or null, remote_type
\* null exactly when remote_url is null, and both null when parent_type is local.
C21_ConfigSchema ==
    cmd.kind = "start" =>
        \A i \in 1..Len(Configs) : WellFormed(Configs[i].info)

\* C27: start pushes only after it has configured a remote named origin,
\* whatever --remote holds and whatever the prompts answer; and when start has
\* gone through with parent_type remote in .notedconfig, remote_type and
\* remote_url in the file are not null.
C27_PushAfterOrigin ==
    cmd.kind = "start" =>
        /\ \A j \in 1..Len(cmd.log) :
             cmd.log[j].op = "push" =>
                 \E i \in 1..(j - 1) :
                     /\ cmd.log[i].op \in {"addRemote", "ghCreate"}
                     /\ cmd.log[i].info = "done"
        /\ (/\ cmd.res = "run"
            /\ Configs # <<>>
            /\ "parent_type" \in DOMAIN Configs[Len(Configs)].info
            /\ Configs[Len(Configs)].info.parent_type = "remote")
           => /\ Configs[Len(Configs)].info.remote_type # Null
              /\ Configs[Len(Configs)].info.remote_url # Null

\* the precondition the last command checks does not hold
PreconditionFails ==
    \/ cmd.kind \in {"noteAdd", "folderAdd"} /\ cmd.args[1] \in cmd.dir.config
    \/ /\ cmd.kind \in {"noteDelete", "folderDelete", "workspaceDelete"}
       /\ cmd.args[2] \notin cmd.dir.names
    \/ /\ cmd.kind = "start"
       /\ \/ cmd.args[2] \in cmd.dir.names
          \/ cmd.args[3] /\ Truthy(cmd.args[4])

\* C28: a command whose precondition check fails prints an error and changes
\* nothing: it runs no operation, and the directory and the repositories are
\* as before. The checks: note add and folder add in a directory with
\* .notedconfig; note delete, folder delete and workspace delete of a name that
\* does not exist; start with --local and --remote, or with a name that exists.
C28_FailedCheckChangesNothing ==
    PreconditionFails =>
        /\ cmd.log = <<>>
        /\ disk = cmd.dir
        /\ Snapshot = cmd.pre
        /\ cmd.res # "run"
        /\ cmd.out # <<>>
        /\ cmd.out[1][1] \in {"errorMainRepo", "errorNotFound", "errorBoth", "errorExists"}

C28_Witness ==
    /\ cmd.kind = "start"
    /\ cmd.args[1] = "part_003"
    /\ ~cmd.args[3]
    /\ cmd.args[4] = "new"
    /\ cmd.args[2] \in cmd.dir.names
    /\ cmd.out = << <<"errorExists", New>>, <<"error", New>> >>

====
